---- MODULE Spec2Model ----
(***************************************************************************)
(* Model of the docker-proxy registry-protocol engine: the /v2 path router *)
(* (router.rs), the upstream resolution and Bearer-token engine (proxy.rs), *)
(* the edge handlers that dispatch to them (api.rs) and the byte-range     *)
(* engine of the static file server (range.rs, static_files.rs).           *)
(*                                                                         *)
(* Strings are TLA+ strings handled character by character with Len,       *)
(* SubSeq and \o, so that split, join, contains and the parsers are        *)
(* computed the way the Rust code computes them.                           *)
(***************************************************************************)
EXTENDS Integers, Sequences, FiniteSets, TLC

VARIABLES
    registry_url,   \* DockerProxy.registry_url  (immutable after new)
    ghcr_token,     \* DockerProxy.ghcr_token    (immutable after new)
    overflow_checks, \* the build profile: integer overflow panics (debug) or wraps (release)
    upstream,       \* the fixed behaviour of the upstream, where a specification fixes one
    others,         \* the request tasks suspended at an await point, sharing the DockerProxy
    completed,      \* the requests answered so far with their results
    pc,             \* position of the request task
    req,            \* the inbound request: [method, rest]
    endpoint,       \* router::parse_v2_path(rest)
    call,           \* the engine call in flight: [op, origin, method, url, extra_headers]
    sent,           \* outbound requests issued so far, in order
    received,       \* what came back for them, in order
    fetched,        \* what fetch_with_auth returned
    outcome,        \* what the engine operation returned
    reply           \* the response handed to the client

vars == <<registry_url, ghcr_token, overflow_checks, upstream, others, completed, pc, req, endpoint, call, sent, received, fetched, outcome, reply>>

None == [none |-> TRUE]

(***************************************************************************)
(* String primitives (std::str)                                            *)
(***************************************************************************)
Ch(s, i) == SubSeq(s, i, i)

\* str::find(pat): 1-based index of the first match, 0 when there is none
RECURSIVE FindFrom(_, _, _)
FindFrom(s, pat, i) ==
    IF i + Len(pat) - 1 > Len(s) THEN 0
    ELSE IF SubSeq(s, i, i + Len(pat) - 1) = pat THEN i
    ELSE FindFrom(s, pat, i + 1)

Find(s, pat) == FindFrom(s, pat, 1)

\* str::contains(pat)
Contains(s, pat) == Find(s, pat) # 0

StartsWith(s, pat) == Len(s) >= Len(pat) /\ SubSeq(s, 1, Len(pat)) = pat

EndsWith(s, pat) == Len(s) >= Len(pat) /\ SubSeq(s, Len(s) - Len(pat) + 1, Len(s)) = pat

\* str::split(c).collect(): always at least one part; "" gives <<"">>
RECURSIVE Split(_, _)
Split(s, c) ==
    LET k == Find(s, c) IN
    IF k = 0 THEN <<s>>
    ELSE <<SubSeq(s, 1, k - 1)>> \o Split(SubSeq(s, k + 1, Len(s)), c)

\* [&str]::join(sep)
RECURSIVE Join(_, _)
Join(parts, sep) ==
    IF Len(parts) = 0 THEN ""
    ELSE IF Len(parts) = 1 THEN parts[1]
    ELSE parts[1] \o sep \o Join(Tail(parts), sep)

(***************************************************************************)
(* router.rs                                                               *)
(***************************************************************************)
Unknown == [kind |-> "Unknown"]

\* a position() that keeps the last match instead of the first (rposition)
RECURSIVE PositionLast(_, _)
PositionLast(parts, seg) ==
    IF Len(parts) = 0 THEN 0
    ELSE IF parts[Len(parts)] = seg THEN Len(parts)
    ELSE PositionLast(SubSeq(parts, 1, Len(parts) - 1), seg)

\* parts.iter().position(|&p| p == seg), 1-based; 0 is Rust's None
RECURSIVE PositionFrom(_, _, _)
PositionFrom(parts, seg, j) ==
    IF j > Len(parts) THEN 0
    ELSE IF parts[j] = seg THEN j
    ELSE PositionFrom(parts, seg, j + 1)

Position(parts, seg) == PositionFrom(parts, seg, 1)

\* a name that loses its first segment (parts[1..i] for parts[..i])
NameBeforeDropFirst(parts, j) == Join(SubSeq(parts, 2, j - 1), "/")

\* parts[..i].join("/") with i the 0-based index of the keyword (j = i + 1)
NameBefore(parts, j) == Join(SubSeq(parts, 1, j - 1), "/")

\* a blobs branch that tries the plain-blob case before the upload cases
BlobsBranchBlobFirst(parts, j) ==
    IF j < Len(parts)
    THEN [kind |-> "Blob", name |-> Join(SubSeq(parts, 1, j - 1), "/"), digest |-> parts[j + 1]]
    ELSE [kind |-> "Unknown"]

\* the blobs branch of parse_v2_path; j is the 1-based index of `blobs`,
\* so Rust's i + 2 < len is j + 1 < len and parts[i + 1] is parts[j + 1]
BlobsBranch(parts, j) ==
    IF j + 1 < Len(parts) /\ parts[j + 1] = "uploads"
    THEN [kind |-> "BlobUploadComplete", name |-> NameBefore(parts, j), uuid |-> parts[j + 2]]
    ELSE IF j < Len(parts) /\ parts[j + 1] = "uploads" /\ j + 1 = Len(parts)
    THEN [kind |-> "BlobUploadInit", name |-> NameBefore(parts, j)]
    ELSE IF j < Len(parts)
    THEN [kind |-> "Blob", name |-> NameBefore(parts, j), digest |-> parts[j + 1]]
    ELSE Unknown

\* a router that splits at the first keyword of either kind
parse_v2_path_first_keyword(rest) ==
    LET parts == Split(rest, "/")
        m == Position(parts, "manifests")
        b == Position(parts, "blobs")
    IN  IF m # 0 /\ (b = 0 \/ m < b)
        THEN IF m < Len(parts)
             THEN [kind |-> "Manifest", name |-> NameBefore(parts, m), reference |-> parts[m + 1]]
             ELSE Unknown
        ELSE IF b # 0 THEN BlobsBranch(parts, b)
        ELSE Unknown

parse_v2_path(rest) ==
    LET parts == Split(rest, "/")
        m == Position(parts, "manifests")
        b == Position(parts, "blobs")
    IN  IF m # 0 /\ m < Len(parts)
        THEN [kind |-> "Manifest", name |-> NameBefore(parts, m), reference |-> parts[m + 1]]
        ELSE IF b # 0 THEN BlobsBranch(parts, b)
        ELSE Unknown

(***************************************************************************)
(* Inputs of the router: every path tail of at most MaxSegs segments       *)
(***************************************************************************)
MaxSegs == 5

Segments == {"manifests", "blobs", "uploads", "a", "b", ""}

SegLists == UNION {[1..n -> Segments] : n \in 1..MaxSegs}

PathTails == {Join(p, "/") : p \in SegLists}

(***************************************************************************)
(* The router as a state machine: a path tail arrives, classify it.         *)
(* Only the range engine does arithmetic that can overflow, so the build   *)
(* profile is left at one value wherever the range engine does not run.    *)
(***************************************************************************)
InitRouter ==
    /\ registry_url = "https://docker.io"
    /\ ghcr_token = ""
    /\ overflow_checks = FALSE
    /\ upstream = None
    /\ others = <<>>
    /\ completed = {}
    /\ pc = "idle"
    /\ req \in {[method |-> "GET", rest |-> p] : p \in PathTails}
    /\ endpoint = None
    /\ call = None
    /\ sent = <<>>
    /\ received = <<>>
    /\ fetched = None
    /\ outcome = None
    /\ reply = None

classify ==
    /\ pc = "idle"
    /\ endpoint' = parse_v2_path(req.rest)
    /\ pc' = "done"
    /\ UNCHANGED <<registry_url, ghcr_token, overflow_checks, upstream, others, completed, req, call, sent, received, fetched, outcome, reply>>

NextRouter == classify

SpecRouter == InitRouter /\ [][NextRouter]_vars

(***************************************************************************)
(* More string primitives used by proxy.rs                                 *)
(***************************************************************************)
IsSpace(c) == c \in {" ", "\t", "\n", "\r"}

\* str::trim_start_matches / trim_end_matches for a set of characters
RECURSIVE TrimStartOf(_, _)
TrimStartOf(s, cs) ==
    IF Len(s) > 0 /\ Ch(s, 1) \in cs THEN TrimStartOf(SubSeq(s, 2, Len(s)), cs) ELSE s

RECURSIVE TrimEndOf(_, _)
TrimEndOf(s, cs) ==
    IF Len(s) > 0 /\ Ch(s, Len(s)) \in cs THEN TrimEndOf(SubSeq(s, 1, Len(s) - 1), cs) ELSE s

\* str::trim()
Trim(s) == TrimEndOf(TrimStartOf(s, {" ", "\t", "\n", "\r"}), {" ", "\t", "\n", "\r"})

\* str::trim_matches(c)
TrimMatches(s, c) == TrimEndOf(TrimStartOf(s, {c}), {c})

\* str::splitn(2, c).collect()
SplitN2(s, c) ==
    LET k == Find(s, c) IN
    IF k = 0 THEN <<s>> ELSE <<SubSeq(s, 1, k - 1), SubSeq(s, k + 1, Len(s))>>

\* HashMap::insert
Insert(m, k, v) == [x \in (DOMAIN m) \cup {k} |-> IF x = k THEN v ELSE m[x]]

(***************************************************************************)
(* HTTP values.  An Option<String> is <<>> (None) or <<s>> (Some(s)).       *)
(***************************************************************************)
\* StatusCode::is_success
is_success(status) == status >= 200 /\ status < 300

\* headers().get(name).and_then(|v| v.to_str().ok())
HeaderStr(resp, name) ==
    IF name \in DOMAIN resp.headers /\ resp.headers[name].visible
    THEN <<resp.headers[name].text>>
    ELSE <<>>

Ok(v) == [ok |-> TRUE, value |-> v]

Err(e) == [ok |-> FALSE, err |-> e]

(***************************************************************************)
(* proxy.rs: configuration and name resolution                             *)
(***************************************************************************)
\* DockerProxy::new: the registry_url field
new_registry_url(default_registry) ==
    IF StartsWith(default_registry, "http") THEN default_registry
    ELSE "https://" \o default_registry

is_ghcr_registry(url) == Contains(url, "ghcr.io")

\* a normalisation that prefixes every name
normalize_image_name_always(name) == "library/" \o name

normalize_image_name(name) ==
    IF Contains(name, "/") THEN name ELSE "library/" \o name

\* a host test that looks for a dot only
split_registry_and_name_dot_only(name) ==
    LET pos == Find(name, "/")
        first == SubSeq(name, 1, pos - 1)
    IN  IF pos # 0 /\ Contains(first, ".")
        THEN <<"https://" \o first, SubSeq(name, pos + 1, Len(name))>>
        ELSE <<registry_url, normalize_image_name(name)>>

split_registry_and_name(name) ==
    LET pos == Find(name, "/")
        first == SubSeq(name, 1, pos - 1)
    IN  IF pos # 0 /\ (Contains(first, ".") \/ Contains(first, ":"))
        THEN <<"https://" \o first, SubSeq(name, pos + 1, Len(name))>>
        ELSE <<registry_url, normalize_image_name(name)>>

(***************************************************************************)
(* proxy.rs: the Bearer challenge and the token request                    *)
(***************************************************************************)
\* one iteration of the for loop over params_part.split(',')
InsertPair(out, pair) ==
    LET kv == SplitN2(pair, "=") IN
    IF Len(kv) # 2 THEN out
    ELSE LET key == Trim(TrimMatches(Trim(kv[1]), ","))
             val == Trim(kv[2])
         IN  Insert(out, key,
                    IF StartsWith(val, "\"") /\ EndsWith(val, "\"") /\ Len(val) >= 2
                    THEN SubSeq(val, 2, Len(val) - 1)
                    ELSE val)

RECURSIVE InsertPairs(_, _)
InsertPairs(out, pairs) ==
    IF Len(pairs) = 0 THEN out
    ELSE InsertPairs(InsertPair(out, Head(pairs)), Tail(pairs))

parse_www_authenticate(s) ==
    LET parts == SplitN2(s, " ") IN
    IF Len(parts) < 2 THEN <<>>
    ELSE InsertPairs(<<>>, Split(parts[2], ","))

\* token_url.push_str(if token_url.contains('?') { "&" } else { "?" }); push_str("k=v")
PushParam(token_url, k, v) ==
    token_url \o (IF Contains(token_url, "?") THEN "&" ELSE "?") \o k \o "=" \o v

\* a token request URL that appends the scope before the service
token_url_scope_first(params) ==
    LET u0 == params["realm"]
        u1 == IF "scope" \in DOMAIN params THEN PushParam(u0, "scope", params["scope"]) ELSE u0
    IN  IF "service" \in DOMAIN params THEN PushParam(u1, "service", params["service"]) ELSE u1

\* the token request URL built from the challenge parameters
token_url(params) ==
    LET u0 == params["realm"]
        u1 == IF "service" \in DOMAIN params THEN PushParam(u0, "service", params["service"]) ELSE u0
    IN  IF "scope" \in DOMAIN params THEN PushParam(u1, "scope", params["scope"]) ELSE u1

\* a token extraction that knows the `token` field only
extract_token_field_only(j) ==
    IF j.object /\ "token" \in DOMAIN j.fields THEN j.fields["token"] ELSE <<>>

\* a token extraction that prefers `access_token`
extract_token_access_first(j) ==
    IF j.object /\ "access_token" \in DOMAIN j.fields /\ j.fields["access_token"] # <<>>
    THEN j.fields["access_token"]
    ELSE IF j.object /\ "token" \in DOMAIN j.fields
    THEN j.fields["token"]
    ELSE <<>>

\* j.get("token").and_then(as_str).or_else(|| j.get("access_token").and_then(as_str))
extract_token(j) ==
    IF j.object /\ "token" \in DOMAIN j.fields /\ j.fields["token"] # <<>>
    THEN j.fields["token"]
    ELSE IF j.object /\ "access_token" \in DOMAIN j.fields
    THEN j.fields["access_token"]
    ELSE <<>>

(***************************************************************************)
(* proxy.rs: the registry operations around fetch_with_auth                *)
(***************************************************************************)
\* u64 is scaled to WordBits bits: the largest value is u64_MAX, parsing a
\* larger numeral fails and arithmetic past it overflows
WordBits == 16

u64_MAX == 2^WordBits - 1

\* str::parse::<u64>(): digits only (an optional leading +), Err on overflow
RECURSIVE DigitsValue(_, _)
DigitsValue(s, acc) ==
    IF Len(s) = 0 THEN <<acc>>
    ELSE LET d == Find("0123456789", Ch(s, 1)) IN
         IF d = 0 \/ acc * 10 + (d - 1) > u64_MAX THEN <<>>
         ELSE DigitsValue(SubSeq(s, 2, Len(s)), acc * 10 + (d - 1))

parse_u64(s) ==
    LET t == IF StartsWith(s, "+") THEN SubSeq(s, 2, Len(s)) ELSE s IN
    IF Len(t) = 0 THEN <<>> ELSE DigitsValue(t, 0)

\* .get("content-type")...unwrap_or("application/json")
content_type_of(resp) ==
    IF HeaderStr(resp, "content-type") # <<>> THEN HeaderStr(resp, "content-type")[1]
    ELSE "application/json"

\* .get("content-length")....and_then(|s| s.parse::<u64>().ok()).unwrap_or(0)
content_length_of(resp) ==
    LET h == HeaderStr(resp, "content-length") IN
    IF h # <<>> /\ parse_u64(h[1]) # <<>> THEN parse_u64(h[1])[1] ELSE 0

AcceptV2 == <<"Accept", "application/vnd.docker.distribution.manifest.v2+json">>

AcceptList == <<"Accept", "application/vnd.docker.distribution.manifest.list.v2+json">>

\* the method, URL and extra headers each operation hands to fetch_with_auth
op_request(op, name, arg) ==
    LET target == split_registry_and_name(name)
        kind == IF op \in {"get_manifest", "head_manifest"} THEN "manifests" ELSE "blobs"
    IN  [op |-> op, name |-> name, arg |-> arg,
         origin |-> target[1], image |-> target[2],
         method |-> IF op \in {"get_manifest", "get_blob"} THEN "GET" ELSE "HEAD",
         url |-> target[1] \o "/v2/" \o target[2] \o "/" \o kind \o "/" \o arg,
         extra_headers |-> IF op = "get_manifest" THEN <<AcceptV2, AcceptList>>
                           ELSE IF op = "head_manifest" THEN <<AcceptV2>>
                           ELSE <<>>]

\* an operation that reports every non-2xx response as ManifestNotFound
op_result_manifest_kind(op, f) ==
    IF ~f.ok THEN f
    ELSE LET r == f.value IN
         IF ~is_success(r.status)
         THEN Err([kind |-> "ManifestNotFound", status |-> r.status])
         ELSE IF op \in {"get_manifest", "get_blob"} /\ ~r.body.readable
         THEN Err([kind |-> "ResponseReadError"])
         ELSE IF op = "get_manifest"
         THEN Ok([content_type |-> content_type_of(r), body |-> r.body.text])
         ELSE IF op = "head_manifest"
         THEN Ok([content_type |-> content_type_of(r), content_length |-> content_length_of(r)])
         ELSE IF op = "get_blob"
         THEN Ok([status |-> r.status, headers |-> r.headers, body |-> r.body.text])
         ELSE Ok([content_length |-> content_length_of(r)])

\* what the operation makes of the result f of fetch_with_auth
op_result(op, f) ==
    IF ~f.ok THEN f
    ELSE LET r == f.value IN
         IF ~is_success(r.status)
         THEN Err([kind |-> IF op \in {"get_manifest", "head_manifest"}
                            THEN "ManifestNotFound" ELSE "BlobNotFound",
                   status |-> r.status])
         ELSE IF op = "get_manifest"
         THEN IF r.body.readable
              THEN Ok([content_type |-> content_type_of(r), body |-> r.body.text])
              ELSE Err([kind |-> "ResponseReadError"])
         ELSE IF op = "head_manifest"
         THEN Ok([content_type |-> content_type_of(r), content_length |-> content_length_of(r)])
         ELSE IF op = "get_blob"
         THEN IF r.body.readable
              THEN Ok([status |-> r.status, headers |-> r.headers, body |-> r.body.text])
              ELSE Err([kind |-> "ResponseReadError"])
         ELSE Ok([content_length |-> content_length_of(r)])

\* DockerProxy::initiate_blob_upload
proxy_initiate_blob_upload(name) == Err([kind |-> "BlobUploadNotSupported"])

(***************************************************************************)
(* api.rs: the edge handlers                                               *)
(***************************************************************************)
Response(status, headers, body) == [status |-> status, headers |-> headers, body |-> body]

NotFound == Response(404, <<>>, "Not Found")

HopByHop == {"connection", "transfer-encoding", "upgrade"}

\* u64::to_string
RECURSIVE to_string(_)
to_string(n) ==
    IF n < 10 THEN Ch("0123456789", n + 1)
    ELSE to_string(n \div 10) \o Ch("0123456789", (n % 10) + 1)

\* the match on the result of the operation in each handler
handler_reply(op, out) ==
    IF op \in {"get_manifest", "head_manifest"}
    THEN IF out.ok
         THEN Response(200,
                       IF op = "get_manifest"
                       THEN Insert(<<>>, "content-type", out.value.content_type)
                       ELSE Insert(Insert(<<>>, "content-type", out.value.content_type),
                                   "content-length", to_string(out.value.content_length)),
                       IF op = "get_manifest" THEN out.value.body ELSE "")
         ELSE Response(IF out.err.kind = "ManifestNotFound" THEN 404
                       ELSE IF out.err.kind = "AuthenticationFailed" THEN 401
                       ELSE 500,
                       <<>>, "Error: " \o out.err.kind)
    ELSE IF op = "get_blob"
    THEN IF out.ok
         THEN Response(out.value.status,
                       [h \in (DOMAIN out.value.headers) \ HopByHop |-> out.value.headers[h].text],
                       out.value.body)
         ELSE Response(502, <<>>, "Upstream blob error: " \o out.err.kind)
    ELSE IF op = "head_blob"
    THEN IF out.ok
         THEN Response(200,
                       Insert(Insert(<<>>, "content-type", "application/octet-stream"),
                              "content-length", to_string(out.value.content_length)),
                       "")
         ELSE Response(IF out.err.kind = "BlobNotFound" THEN 404
                       ELSE IF out.err.kind = "AuthenticationFailed" THEN 401
                       ELSE 500,
                       <<>>, "Error: " \o out.err.kind)
    ELSE \* initiate_blob_upload
         IF out.ok
         THEN Response(202, Insert(<<>>, "location", out.value), "")
         ELSE Response(IF out.err.kind = "BlobUploadNotSupported" THEN 405 ELSE 500,
                       <<>>, "Error: " \o out.err.kind)

(***************************************************************************)
(* range.rs: the byte-range engine.  A call returns a value or panics; an  *)
(* Option<Range<u64>> is <<>> or <<[start, end]>>.                          *)
(***************************************************************************)
Returned(v) == [panicked |-> FALSE, value |-> v]

Panicked == [panicked |-> TRUE]

Range(start, end) == <<[start |-> start, end |-> end]>>

Min(a, b) == IF a <= b THEN a ELSE b

\* lines 46-51: the validation of an explicit or open-ended range
range_validated(start, end, file_size) ==
    IF start >= file_size \/ start >= end THEN Returned(<<>>) ELSE Returned(Range(start, end))

\* lines 42-43: (end_inclusive + 1).min(file_size); the addition overflows
\* for end_inclusive = u64::MAX
range_explicit_end(start, end_inclusive, file_size) ==
    IF end_inclusive + 1 > u64_MAX /\ overflow_checks THEN Panicked
    ELSE range_validated(start, Min((end_inclusive + 1) % (2^WordBits), file_size), file_size)

parse_range_header(range_header, file_size) ==
    LET h == Trim(range_header)
        range_spec == SubSeq(h, 7, Len(h))
        parts == Split(range_spec, "-")
    IN  IF ~StartsWith(h, "bytes=") THEN Returned(<<>>)
        ELSE IF Len(parts) # 2 THEN Returned(<<>>)
        ELSE IF parts[1] = ""
        THEN IF parse_u64(parts[2]) = <<>> THEN Returned(<<>>)
             ELSE LET suffix_length == parse_u64(parts[2])[1] IN
                  IF suffix_length = 0 \/ suffix_length >= file_size
                  THEN Returned(Range(0, file_size))
                  ELSE Returned(Range(file_size - suffix_length, file_size))
        ELSE IF parse_u64(parts[1]) = <<>> THEN Returned(<<>>)
        ELSE IF parts[2] = "" THEN range_validated(parse_u64(parts[1])[1], file_size, file_size)
        ELSE IF parse_u64(parts[2]) = <<>> THEN Returned(<<>>)
        ELSE range_explicit_end(parse_u64(parts[1])[1], parse_u64(parts[2])[1], file_size)

\* str::parse::<HeaderValue>(): Err for a control character other than tab
header_value(s) ==
    IF \E i \in 1..Len(s) : Ch(s, i) \in {"\n", "\r"} THEN <<>> ELSE <<s>>

\* a - b on u64: overflows for a < b
sub_overflows(a, b) == a < b

wrapping_sub(a, b) == (a - b + 2^WordBits) % (2^WordBits)

\* headers that give the exclusive end in Content-Range
create_range_headers_exclusive_end(range, file_size, content_type) ==
    IF header_value(content_type) = <<>> THEN Returned(Err("()"))
    ELSE Returned(Ok([status |-> 206,
                      headers |->
                          Insert(Insert(Insert(Insert(<<>>,
                              "content-type", content_type),
                              "content-length", to_string(range.end - range.start)),
                              "content-range", "bytes " \o to_string(range.start) \o "-"
                                               \o to_string(range.end) \o "/"
                                               \o to_string(file_size)),
                              "accept-ranges", "bytes")]))

create_range_headers(range, file_size, content_type) ==
    IF header_value(content_type) = <<>> THEN Returned(Err("()"))
    ELSE IF sub_overflows(range.end, range.start) /\ overflow_checks THEN Panicked
    ELSE IF sub_overflows(range.end, 1) /\ overflow_checks THEN Panicked
    ELSE Returned(Ok([status |-> 206,
                      headers |->
                          Insert(Insert(Insert(Insert(<<>>,
                              "content-type", content_type),
                              "content-length", to_string(wrapping_sub(range.end, range.start))),
                              "content-range", "bytes " \o to_string(range.start) \o "-"
                                               \o to_string(wrapping_sub(range.end, 1)) \o "/"
                                               \o to_string(file_size)),
                              "accept-ranges", "bytes")]))

(***************************************************************************)
(* The upstream: what a registry and a token endpoint may answer           *)
(***************************************************************************)
Hv(text) == [text |-> text, visible |-> TRUE]

Body(text) == [readable |-> TRUE, text |-> text]

ChallengeFull ==
    "Bearer realm=\"https://auth.io/token\",service=\"registry.io\",scope=\"repository:a:pull\""

ChallengeRealmOnly == "Bearer realm=\"https://auth.io/token\""

ChallengeQueryRealm == "Bearer realm=\"https://auth.io/token?x=y\",scope=\"repository:a:pull\""

ChallengeNoRealm == "Bearer service=\"registry.io\""

ChallengeNoParams == "Basic"

Challenges ==
    {ChallengeFull, ChallengeRealmOnly, ChallengeQueryRealm, ChallengeNoRealm, ChallengeNoParams}

ManifestType == "application/vnd.docker.distribution.manifest.v2+json"

RegistryResponses ==
    {[status |-> 200,
      headers |-> Insert(Insert(<<>>, "content-type", Hv(ManifestType)), "content-length", Hv("12")),
      body |-> Body("{\"layers\":[]}")],
     [status |-> 200, headers |-> Insert(<<>>, "connection", Hv("close")), body |-> Body("data")],
     [status |-> 200, headers |-> <<>>, body |-> [readable |-> FALSE, text |-> ""]],
     [status |-> 404, headers |-> <<>>, body |-> Body("not found")],
     [status |-> 500, headers |-> <<>>, body |-> Body("")],
     [status |-> 403, headers |-> Insert(<<>>, "www-authenticate", Hv(ChallengeFull)),
      body |-> Body("denied")],
     [status |-> 401, headers |-> <<>>, body |-> Body("")],
     [status |-> 401,
      headers |-> Insert(<<>>, "www-authenticate", [text |-> ChallengeFull, visible |-> FALSE]),
      body |-> Body("")]}
    \cup {[status |-> 401, headers |-> Insert(<<>>, "www-authenticate", Hv(c)), body |-> Body("")] :
             c \in Challenges}

\* a send() that fails: reqwest::Error, converted to ProxyError::Network by `?`
TransportError == [transport_error |-> TRUE]

IsTransportError(r) == "transport_error" \in DOMAIN r

\* JSON bodies of the token endpoint: fields maps a key to <<s>> when its value
\* is the string s and to <<>> when it is not a string
Json(fields) == [parses |-> TRUE, object |-> TRUE, fields |-> fields]

TokenBodies ==
    {[parses |-> FALSE, object |-> FALSE, fields |-> <<>>],
     [parses |-> TRUE, object |-> FALSE, fields |-> <<>>],
     Json(<<>>),
     Json(Insert(<<>>, "token", <<>>)),
     Json(Insert(<<>>, "token", <<"tk1">>)),
     Json(Insert(<<>>, "access_token", <<"tk2">>)),
     Json(Insert(Insert(<<>>, "token", <<"tk1">>), "access_token", <<"tk2">>)),
     Json(Insert(Insert(<<>>, "token", <<>>), "access_token", <<"tk2">>))}

TokenResponses ==
    {[status |-> 200, json |-> b] : b \in TokenBodies}
    \cup {[status |-> 403, json |-> Json(Insert(<<>>, "token", <<"tk1">>))],
          [status |-> 500, json |-> [parses |-> FALSE, object |-> FALSE, fields |-> <<>>]]}

(***************************************************************************)
(* The inbound requests and the configuration                              *)
(***************************************************************************)
MaxNameSegs == 2

NameSegments == {"a", "ghcr.io"}

Names == UNION {[1..n -> NameSegments] : n \in 1..MaxNameSegs}

Suffixes ==
    {<<"manifests", "v1">>, <<"manifests", "ghcr.io">>, <<"blobs", "sha256:ab">>,
     <<"blobs", "uploads">>, <<"blobs", "uploads", "">>, <<"blobs", "uploads", "u1">>,
     <<"tags", "list">>}

RequestTails == {Join(n \o x, "/") : n \in Names, x \in Suffixes}

DefaultRegistries == {"docker.io", "https://ghcr.io"}

GhcrTokens == {"", "ghp_static"}

(***************************************************************************)
(* The request task: handler, operation, fetch_with_auth                   *)
(***************************************************************************)
Init ==
    /\ registry_url \in {new_registry_url(d) : d \in DefaultRegistries}
    /\ ghcr_token \in GhcrTokens
    /\ overflow_checks = FALSE
    /\ upstream = None
    /\ others = <<>>
    /\ completed = {}
    /\ pc = "idle"
    /\ req = None
    /\ endpoint = None
    /\ call = None
    /\ sent = <<>>
    /\ received = <<>>
    /\ fetched = None
    /\ outcome = None
    /\ reply = None

\* let has_ghcr_token = is_ghcr && !self.ghcr_token.is_empty()
has_ghcr_token(url) == is_ghcr_registry(url) /\ ghcr_token # ""

\* the static credential as attached by the initial and the token request
static_bearer(url) == IF has_ghcr_token(url) THEN <<ghcr_token>> ELSE <<>>

\* an outbound request; `at` is the send() that issues it
Outbound(at, method, url, headers, bearer) ==
    [at |-> at, method |-> method, url |-> url, headers |-> headers, bearer |-> bearer]

\* a handler that answers without calling upstream
Answer(r) ==
    /\ reply' = r
    /\ pc' = "done"
    /\ UNCHANGED <<call, sent, received, fetched, outcome>>

\* a handler calls the operation: fetch_with_auth up to its first send().await
StartCall(op, name, arg) ==
    LET c == op_request(op, name, arg) IN
    /\ call' = c
    /\ sent' = <<Outbound("initial", c.method, c.url, c.extra_headers, static_bearer(c.url))>>
    /\ pc' = "initial"
    /\ UNCHANGED <<received, fetched, outcome, reply>>

\* an engine that answers from the result of an earlier call of another request
Return_from_earlier_call(f) ==
    /\ fetched' = f
    /\ \/ /\ outcome' = op_result(call.op, f)
          /\ reply' = handler_reply(call.op, op_result(call.op, f))
       \/ \E c \in completed :
             /\ c.req # req
             /\ outcome' = c.outcome
             /\ reply' = c.reply
    /\ pc' = "done"
    /\ UNCHANGED <<call>>

\* fetch_with_auth returns f: the operation and the handler run to the end
Return(f) ==
    /\ fetched' = f
    /\ outcome' = op_result(call.op, f)
    /\ reply' = handler_reply(call.op, op_result(call.op, f))
    /\ pc' = "done"
    /\ UNCHANGED <<call>>

v2_get(rest) ==
    /\ pc = "idle"
    /\ req' = [method |-> "GET", rest |-> rest]
    /\ endpoint' = parse_v2_path(rest)
    /\ LET e == parse_v2_path(rest) IN
       IF e.kind = "Manifest" THEN StartCall("get_manifest", e.name, e.reference)
       ELSE IF e.kind = "Blob" THEN StartCall("get_blob", e.name, e.digest)
       ELSE Answer(NotFound)
    /\ UNCHANGED <<registry_url, ghcr_token, overflow_checks, upstream, others, completed>>

v2_head(rest) ==
    /\ pc = "idle"
    /\ req' = [method |-> "HEAD", rest |-> rest]
    /\ endpoint' = parse_v2_path(rest)
    /\ LET e == parse_v2_path(rest) IN
       IF e.kind = "Manifest" THEN StartCall("head_manifest", e.name, e.reference)
       ELSE IF e.kind = "Blob" THEN StartCall("head_blob", e.name, e.digest)
       ELSE Answer(NotFound)
    /\ UNCHANGED <<registry_url, ghcr_token, overflow_checks, upstream, others, completed>>

v2_post(rest) ==
    /\ pc = "idle"
    /\ req' = [method |-> "POST", rest |-> rest]
    /\ endpoint' = parse_v2_path(rest)
    /\ LET e == parse_v2_path(rest) IN
       IF e.kind = "BlobUploadInit"
       THEN /\ outcome' = proxy_initiate_blob_upload(e.name)
            /\ reply' = handler_reply("initiate_blob_upload", proxy_initiate_blob_upload(e.name))
            /\ pc' = "done"
            /\ UNCHANGED <<call, sent, received, fetched>>
       ELSE Answer(NotFound)
    /\ UNCHANGED <<registry_url, ghcr_token, overflow_checks, upstream, others, completed>>

\* a PUT handler that accepts the upload-init path as well
v2_put_accepts_init(rest) ==
    /\ pc = "idle"
    /\ req' = [method |-> "PUT", rest |-> rest]
    /\ endpoint' = parse_v2_path(rest)
    /\ LET e == parse_v2_path(rest) IN
       IF e.kind \in {"BlobUploadComplete", "BlobUploadInit"}
       THEN Answer(Response(201, <<>>, "Upload complete"))
       ELSE Answer(NotFound)
    /\ UNCHANGED <<registry_url, ghcr_token, overflow_checks, upstream, others, completed>>

v2_put(rest) ==
    /\ pc = "idle"
    /\ req' = [method |-> "PUT", rest |-> rest]
    /\ endpoint' = parse_v2_path(rest)
    /\ LET e == parse_v2_path(rest) IN
       IF e.kind = "BlobUploadComplete"
       THEN Answer(Response(201, <<>>, "Upload complete"))
       ELSE Answer(NotFound)
    /\ UNCHANGED <<registry_url, ghcr_token, overflow_checks, upstream, others, completed>>

\* a first response that is taken for a challenge on 403 as well
is_unauthorized_or_forbidden(status) == status \in {401, 403}

\* resp.status() == StatusCode::UNAUTHORIZED
is_unauthorized(status) == status = 401

\* the challenge of a 401 response: its parameters, or the error of `?`
challenge_of(r) ==
    LET www == HeaderStr(r, "www-authenticate") IN
    IF www = <<>> THEN Err([kind |-> "MissingAuthHeader"])
    ELSE IF "realm" \notin DOMAIN parse_www_authenticate(www[1])
    THEN Err([kind |-> "MissingAuthRealm"])
    ELSE Ok(parse_www_authenticate(www[1]))

\* the initial request completes: lines 237-276 of fetch_with_auth
initial_response(r) ==
    /\ pc = "initial"
    /\ received' = Append(received, r)
    /\ IF IsTransportError(r) THEN Return(Err([kind |-> "Network"])) /\ UNCHANGED sent
       ELSE IF ~is_unauthorized(r.status) THEN Return(Ok(r)) /\ UNCHANGED sent
       ELSE IF ~challenge_of(r).ok THEN Return(challenge_of(r)) /\ UNCHANGED sent
       ELSE /\ sent' = Append(sent, Outbound("token", "GET", token_url(challenge_of(r).value),
                                             <<>>, static_bearer(call.url)))
            /\ pc' = "token"
            /\ UNCHANGED <<call, fetched, outcome, reply>>
    /\ UNCHANGED <<registry_url, ghcr_token, overflow_checks, upstream, others, completed, req, endpoint>>

\* a token exchange that reads the body without looking at the status
token_of_body_only(t) ==
    IF ~t.json.parses THEN Err([kind |-> "TokenParseFailed"])
    ELSE IF extract_token(t.json) = <<>> THEN Err([kind |-> "TokenNotFound"])
    ELSE Ok(extract_token(t.json)[1])

\* the token of a token response, or the error of `?`: lines 278-293
token_of(t) ==
    IF ~is_success(t.status) THEN Err([kind |-> "TokenRequestFailed", status |-> t.status])
    ELSE IF ~t.json.parses THEN Err([kind |-> "TokenParseFailed"])
    ELSE IF extract_token(t.json) = <<>> THEN Err([kind |-> "TokenNotFound"])
    ELSE Ok(extract_token(t.json)[1])

\* a retry that leaves out the extra headers of the first request
token_response_without_headers(t) ==
    /\ pc = "token"
    /\ received' = Append(received, t)
    /\ IF IsTransportError(t) THEN Return(Err([kind |-> "Network"])) /\ UNCHANGED sent
       ELSE IF ~token_of(t).ok THEN Return(token_of(t)) /\ UNCHANGED sent
       ELSE /\ sent' = Append(sent, Outbound("retry", call.method, call.url,
                                             <<>>, <<token_of(t).value>>))
            /\ pc' = "retry"
            /\ UNCHANGED <<call, fetched, outcome, reply>>
    /\ UNCHANGED <<registry_url, ghcr_token, overflow_checks, upstream, others, completed, req, endpoint>>

\* a retry that carries the token another request task obtained last
token_response_shared_token(t) ==
    /\ pc = "token"
    /\ received' = Append(received, t)
    /\ IF IsTransportError(t) THEN Return(Err([kind |-> "Network"])) /\ UNCHANGED sent
       ELSE IF ~token_of(t).ok THEN Return(token_of(t)) /\ UNCHANGED sent
       ELSE /\ sent' = Append(sent, Outbound("retry", call.method, call.url, call.extra_headers,
                  IF \E i \in DOMAIN others : Len(others[i].sent) = 3
                  THEN others[CHOOSE i \in DOMAIN others : Len(others[i].sent) = 3].sent[3].bearer
                  ELSE <<token_of(t).value>>))
            /\ pc' = "retry"
            /\ UNCHANGED <<call, fetched, outcome, reply>>
    /\ UNCHANGED <<registry_url, ghcr_token, overflow_checks, upstream, others, completed, req, endpoint>>

\* the token request completes: lines 276-303 of fetch_with_auth
token_response(t) ==
    /\ pc = "token"
    /\ received' = Append(received, t)
    /\ IF IsTransportError(t) THEN Return(Err([kind |-> "Network"])) /\ UNCHANGED sent
       ELSE IF ~token_of(t).ok THEN Return(token_of(t)) /\ UNCHANGED sent
       ELSE /\ sent' = Append(sent, Outbound("retry", call.method, call.url,
                                             call.extra_headers, <<token_of(t).value>>))
            /\ pc' = "retry"
            /\ UNCHANGED <<call, fetched, outcome, reply>>
    /\ UNCHANGED <<registry_url, ghcr_token, overflow_checks, upstream, others, completed, req, endpoint>>

\* a retry that answers a further 401 with a further token exchange
retry_response_reauthenticates(r) ==
    /\ pc = "retry"
    /\ received' = Append(received, r)
    /\ IF IsTransportError(r) THEN Return(Err([kind |-> "Network"])) /\ UNCHANGED sent
       ELSE IF is_unauthorized(r.status) /\ challenge_of(r).ok
       THEN /\ sent' = Append(sent, Outbound("token", "GET", token_url(challenge_of(r).value),
                                             <<>>, static_bearer(call.url)))
            /\ pc' = "token"
            /\ UNCHANGED <<call, fetched, outcome, reply>>
       ELSE Return(Ok(r)) /\ UNCHANGED sent
    /\ UNCHANGED <<registry_url, ghcr_token, overflow_checks, upstream, others, completed, req, endpoint>>

\* a retry that starts the call over when the token is rejected
retry_response_starts_over(r) ==
    /\ pc = "retry"
    /\ IF IsTransportError(r)
       THEN received' = Append(received, r) /\ Return(Err([kind |-> "Network"])) /\ UNCHANGED sent
       ELSE IF is_unauthorized(r.status)
       THEN /\ sent' = <<sent[1]>>
            /\ received' = <<>>
            /\ pc' = "initial"
            /\ UNCHANGED <<call, fetched, outcome, reply>>
       ELSE received' = Append(received, r) /\ Return(Ok(r)) /\ UNCHANGED sent
    /\ UNCHANGED <<registry_url, ghcr_token, overflow_checks, upstream, others, completed, req, endpoint>>

\* the retried request completes: lines 303-305 of fetch_with_auth
retry_response(r) ==
    /\ pc = "retry"
    /\ received' = Append(received, r)
    /\ IF IsTransportError(r) THEN Return(Err([kind |-> "Network"])) ELSE Return(Ok(r))
    /\ UNCHANGED <<registry_url, ghcr_token, overflow_checks, upstream, others, completed, req, endpoint, sent>>

Next ==
    \/ \E rest \in RequestTails : v2_get(rest)
    \/ \E rest \in RequestTails : v2_head(rest)
    \/ \E rest \in RequestTails : v2_post(rest)
    \/ \E rest \in RequestTails : v2_put(rest)
    \/ \E r \in RegistryResponses \cup {TransportError} : initial_response(r)
    \/ \E t \in TokenResponses \cup {TransportError} : token_response(t)
    \/ \E r \in RegistryResponses \cup {TransportError} : retry_response(r)

Spec == Init /\ [][Next]_vars

\* every outbound exchange eventually completes: each send().await of
\* fetch_with_auth returns a response or an error
ExchangesComplete ==
    /\ WF_vars(\E r \in RegistryResponses \cup {TransportError} : initial_response(r))
    /\ WF_vars(\E t \in TokenResponses \cup {TransportError} : token_response(t))
    /\ WF_vars(\E r \in RegistryResponses \cup {TransportError} : retry_response(r))

SpecLive == Spec /\ ExchangesComplete

(***************************************************************************)
(* Name resolution on its own: an operation is called with a logical name  *)
(* and builds the request it hands to fetch_with_auth                      *)
(***************************************************************************)
MaxResolveSegs == 3

ResolveSegments == {"a", "library", "ghcr.io", "h:5", ""}

ResolveNames ==
    {Join(p, "/") : p \in UNION {[1..n -> ResolveSegments] : n \in 1..MaxResolveSegs}}

Operations == {"get_manifest", "head_manifest", "get_blob", "head_blob"}

InitResolve ==
    /\ registry_url \in {new_registry_url(d) : d \in DefaultRegistries}
    /\ ghcr_token = ""
    /\ overflow_checks = FALSE
    /\ upstream = None
    /\ others = <<>>
    /\ completed = {}
    /\ pc = "idle"
    /\ req \in {[op |-> op, name |-> n, arg |-> "latest"] : op \in Operations, n \in ResolveNames}
    /\ endpoint = None
    /\ call = None
    /\ sent = <<>>
    /\ received = <<>>
    /\ fetched = None
    /\ outcome = None
    /\ reply = None

\* let (registry_url, image_name) = self.split_registry_and_name(name); let url = format!(...)
resolve ==
    /\ pc = "idle"
    /\ call' = op_request(req.op, req.name, req.arg)
    /\ pc' = "done"
    /\ UNCHANGED <<registry_url, ghcr_token, overflow_checks, upstream, others, completed, req, endpoint, sent, received, fetched, outcome, reply>>

NextResolve == resolve

SpecResolve == InitResolve /\ [][NextResolve]_vars

(***************************************************************************)
(* The challenge on its own: the initial request of a call is answered     *)
(* 401 with a WWW-Authenticate header of the form                          *)
(* <scheme> k1="v1",k2="v2",... and fetch_with_auth goes on from there      *)
(***************************************************************************)
MaxParams == 3

ChallengeKeys == {"realm", "service", "scope"}

ChallengeValues ==
    {"https://auth.io/token", "https://auth.io/token?x=y", "registry.io",
     "repository:a:pull", "repository:a:pull,push"}

\* the parameter lists with distinct keys
ParamLists ==
    {p \in UNION {[1..n -> [key : ChallengeKeys, value : ChallengeValues]] : n \in 0..MaxParams} :
        \A i, j \in 1..Len(p) : i # j => p[i].key # p[j].key}

Separators == {",", ", "}

\* the header text of a Bearer challenge with these parameters
www_authenticate(p, sep) ==
    "Bearer " \o Join([i \in 1..Len(p) |-> p[i].key \o "=\"" \o p[i].value \o "\""], sep)

\* every challenge text the registry may send, with the parameters it states
ChallengeTable ==
    {[text |-> www_authenticate(p, sep), params |-> p] : p \in ParamLists, sep \in Separators}
    \cup {[text |-> ChallengeNoParams, params |-> <<>>]}

InitChallenge ==
    /\ registry_url = "https://docker.io"
    /\ ghcr_token = ""
    /\ overflow_checks = FALSE
    /\ upstream = None
    /\ others = <<>>
    /\ completed = {}
    /\ pc = "initial"
    /\ req = [method |-> "GET", rest |-> "a/manifests/v1"]
    /\ endpoint = parse_v2_path("a/manifests/v1")
    /\ call = op_request("get_manifest", "a", "v1")
    /\ sent = <<Outbound("initial", "GET", "https://docker.io/v2/library/a/manifests/v1",
                         <<AcceptV2, AcceptList>>, <<>>)>>
    /\ received = <<>>
    /\ fetched = None
    /\ outcome = None
    /\ reply = None

\* the initial request is answered 401 with one of the challenges
challenged ==
    \E c \in ChallengeTable :
        initial_response([status |-> 401,
                          headers |-> Insert(<<>>, "www-authenticate", Hv(c.text)),
                          body |-> Body("")])

NextChallenge == challenged

SpecChallenge == InitChallenge /\ [][NextChallenge]_vars

(***************************************************************************)
(* The range engine as static_files.rs drives it: a Range header arrives   *)
(* for a file of file_size bytes, is parsed, and a parsed range is turned  *)
(* into the headers of the partial response                                *)
(***************************************************************************)
MaxSize == 4

FileSizes == (0..MaxSize) \cup {1000, 10000, u64_MAX}

Numbers ==
    (0..(MaxSize + 1)) \cup {499, 500, 1023, 1024, 2047, 5000, 20000, u64_MAX - 1, u64_MAX}

BoundTexts ==
    {to_string(n) : n \in Numbers} \cup {"", "abc", "+1", "01", to_string(u64_MAX) \o "0"}

RangeHeaders ==
    {"bytes=" \o a \o "-" \o b : a, b \in BoundTexts}
    \cup {"items=0-10", "bytes=abc-def", "bytes=0-1-2", "bytes=--1", "bytes=5", "bytes=", "",
          "bytes 0-1", "Bytes=0-1", "bytes= 0-1", "bytes=0 -1", " bytes=1-2 ", "\tbytes=-2\n"}

ContentTypes == {"application/octet-stream", "text/html; charset=utf-8", "text/\nhtml"}

InitRange ==
    /\ registry_url = "https://docker.io"
    /\ ghcr_token = ""
    /\ overflow_checks \in BOOLEAN
    /\ upstream = None
    /\ others = <<>>
    /\ completed = {}
    /\ pc = "idle"
    /\ req \in {[header |-> h, file_size |-> n, content_type |-> t] :
                    h \in RangeHeaders, n \in FileSizes, t \in ContentTypes}
    /\ endpoint = None
    /\ call = None
    /\ sent = <<>>
    /\ received = <<>>
    /\ fetched = None
    /\ outcome = None
    /\ reply = None

\* serve_static, lines 141-144: the Range header is parsed against the file size
parse_range ==
    /\ pc = "idle"
    /\ outcome' = parse_range_header(req.header, req.file_size)
    /\ pc' = IF parse_range_header(req.header, req.file_size) = Panicked
             \/ parse_range_header(req.header, req.file_size).value = <<>>
             THEN "done" ELSE "range"
    /\ UNCHANGED <<registry_url, ghcr_token, overflow_checks, upstream, others, completed, req, endpoint, call, sent, received,
                   fetched, reply>>

\* serve_range, line 228: the headers of the partial response
range_headers ==
    /\ pc = "range"
    /\ reply' = create_range_headers(outcome.value[1], req.file_size, req.content_type)
    /\ pc' = "done"
    /\ UNCHANGED <<registry_url, ghcr_token, overflow_checks, upstream, others, completed, req, endpoint, call, sent, received,
                   fetched, outcome>>

NextRange == parse_range \/ range_headers

SpecRange == InitRange /\ [][NextRange]_vars

(***************************************************************************)
(* The health check: GET /healthz and DockerProxy::check_registry_health   *)
(***************************************************************************)
\* every status code a response can carry
StatusCodes == 100..999

HealthResponses == {[status |-> c, headers |-> <<>>, body |-> Body("")] : c \in StatusCodes}

\* send() fails when the 5 s timeout of the request elapses
TimedOut == [transport_error |-> TRUE, timed_out |-> TRUE]

\* SystemTime::now() in seconds since the epoch; 0 when the clock is before it
Timestamps == {0, 1}

\* a health check that takes only a 2xx for healthy
check_registry_health_success_only(resp) ==
    IF IsTransportError(resp) THEN FALSE
    ELSE is_success(resp.status)

\* the match on the result of send(): Ok(resp) or Err(e)
check_registry_health(resp) ==
    IF IsTransportError(resp) THEN FALSE
    ELSE is_success(resp.status) \/ is_unauthorized(resp.status)

\* the reply of healthz for the result of the check
healthz_reply(registry_healthy, timestamp) ==
    Response(IF registry_healthy THEN 200 ELSE 503,
             Insert(<<>>, "content-type", "application/json"),
             [status |-> IF registry_healthy THEN "healthy" ELSE "degraded",
              version |-> "CARGO_PKG_VERSION",
              registry |-> [url |-> registry_url, healthy |-> registry_healthy],
              timestamp |-> timestamp])

InitHealth ==
    /\ registry_url \in {new_registry_url(d) : d \in DefaultRegistries}
    /\ ghcr_token \in GhcrTokens
    /\ overflow_checks = FALSE
    /\ upstream = None
    /\ others = <<>>
    /\ completed = {}
    /\ pc = "idle"
    /\ req = None
    /\ endpoint = None
    /\ call = None
    /\ sent = <<>>
    /\ received = <<>>
    /\ fetched = None
    /\ outcome = None
    /\ reply = None

\* healthz calls check_registry_health, which sends GET {registry_url}/v2/
healthz ==
    /\ pc = "idle"
    /\ req' = [method |-> "GET", path |-> "/healthz"]
    /\ call' = [op |-> "check_registry_health", method |-> "GET",
                url |-> registry_url \o "/v2/", extra_headers |-> <<>>]
    /\ sent' = <<Outbound("health", "GET", registry_url \o "/v2/", <<>>, <<>>)>>
    /\ pc' = "health"
    /\ UNCHANGED <<registry_url, ghcr_token, overflow_checks, upstream, others, completed, endpoint, received, fetched, outcome, reply>>

\* send() completes with a response, an error or the timeout; healthz answers
health_response(resp, timestamp) ==
    /\ pc = "health"
    /\ received' = Append(received, resp)
    /\ outcome' = check_registry_health(resp)
    /\ reply' = healthz_reply(check_registry_health(resp), timestamp)
    /\ pc' = "done"
    /\ UNCHANGED <<registry_url, ghcr_token, overflow_checks, upstream, others, completed, req, endpoint, call, sent, fetched>>

NextHealth ==
    \/ healthz
    \/ \E resp \in HealthResponses \cup {TransportError, TimedOut}, timestamp \in Timestamps :
           health_response(resp, timestamp)

SpecHealth == InitHealth /\ [][NextHealth]_vars

(***************************************************************************)
(* Concurrent requests: axum runs every request as a task of its own, all  *)
(* tasks hold the same Arc<DockerProxy>.  One task runs at a time; at an    *)
(* await point, or between requests, the runtime may switch to another.     *)
(* The upstream is fixed: it answers equal requests equally.                *)
(***************************************************************************)
NumTasks == 2

BlobTails == {"a/blobs/sha256:ab"}

ManifestTails == {"a/manifests/v1"}

Sized(len) == [status |-> 200, headers |-> Insert(<<>>, "content-length", Hv(len)), body |-> Body("")]

Unauthorized(challenge) ==
    [status |-> 401, headers |-> Insert(<<>>, "www-authenticate", Hv(challenge)), body |-> Body("")]

Granted(key, token) == [status |-> 200, json |-> Json(Insert(<<>>, key, <<token>>))]

\* what an upstream does with the requests for one registry URL: its answer
\* to the request without the token it issues, to the token request, and to
\* the request that bears the issued token
Behaviours ==
    {[first |-> Sized("12"), token |-> TransportError, retry |-> Sized("12")],
     [first |-> Unauthorized(ChallengeFull), token |-> Granted("token", "tk1"),
      retry |-> Sized("7")],
     [first |-> Unauthorized(ChallengeRealmOnly), token |-> Granted("access_token", "tk2"),
      retry |-> Unauthorized(ChallengeRealmOnly)],
     [first |-> [status |-> 404, headers |-> <<>>, body |-> Body("not found")],
      token |-> TransportError, retry |-> TransportError],
     [first |-> Unauthorized(ChallengeQueryRealm),
      token |-> [status |-> 500, json |-> [parses |-> FALSE, object |-> FALSE, fields |-> <<>>]],
      retry |-> TransportError]}

\* the answer of a behaviour to an outbound request
answer(b, request) ==
    IF request.at = "initial" THEN b.first
    ELSE IF request.at = "token" THEN b.token
    ELSE IF ~IsTransportError(b.token) /\ request.bearer = extract_token(b.token.json)
    THEN b.retry
    ELSE b.first

\* the state of the running request task
Current ==
    [pc |-> pc, req |-> req, endpoint |-> endpoint, call |-> call, sent |-> sent,
     received |-> received, fetched |-> fetched, outcome |-> outcome, reply |-> reply]

\* a task that waits for its next request
Idle ==
    [pc |-> "idle", req |-> None, endpoint |-> None, call |-> None, sent |-> <<>>,
     received |-> <<>>, fetched |-> None, outcome |-> None, reply |-> None]

Resume(c) ==
    /\ pc' = c.pc
    /\ req' = c.req
    /\ endpoint' = c.endpoint
    /\ call' = c.call
    /\ sent' = c.sent
    /\ received' = c.received
    /\ fetched' = c.fetched
    /\ outcome' = c.outcome
    /\ reply' = c.reply

InitShared ==
    /\ registry_url = new_registry_url("docker.io")
    /\ ghcr_token = ""
    /\ overflow_checks = FALSE
    /\ upstream \in [{op_request("head_blob", "a", "sha256:ab").url,
                       op_request("get_manifest", "a", "v1").url} -> Behaviours]
    /\ others = [i \in 1..(NumTasks - 1) |-> Idle]
    /\ completed = {}
    /\ pc = "idle"
    /\ req = None
    /\ endpoint = None
    /\ call = None
    /\ sent = <<>>
    /\ received = <<>>
    /\ fetched = None
    /\ outcome = None
    /\ reply = None

\* the runtime suspends the running task and resumes task i
yield(i) ==
    /\ others[i] # Current
    /\ others' = [others EXCEPT ![i] = Current]
    /\ Resume(others[i])
    /\ UNCHANGED <<registry_url, ghcr_token, overflow_checks, upstream, completed>>

\* the reply is written to the client: the task is free for its next request
complete ==
    /\ pc = "done"
    /\ completed' = completed \cup {[req |-> req, outcome |-> outcome, reply |-> reply]}
    /\ Resume(Idle)
    /\ UNCHANGED <<registry_url, ghcr_token, overflow_checks, upstream, others>>

\* the exchange the running task awaits completes with the upstream's answer
respond ==
    /\ pc \in {"initial", "token", "retry"}
    /\ LET r == answer(upstream[call.url], sent[Len(sent)]) IN
       \/ initial_response(r)
       \/ token_response(r)
       \/ retry_response(r)

NextShared ==
    \/ \E rest \in BlobTails : v2_head(rest)
    \/ \E rest \in ManifestTails : v2_get(rest)
    \/ respond
    \/ \E i \in 1..(NumTasks - 1) : yield(i)
    \/ complete

SpecShared == InitShared /\ [][NextShared]_vars

(***************************************************************************)
(* Properties of fetch_with_auth and of the handlers                       *)
(***************************************************************************)
InCall == call # None

Done == pc = "done"

\* the positions in the log of the requests sent to the operation's URL
\* (the registry) and of those sent anywhere else (the token endpoint)
RegistryRequests == {i \in 1..Len(sent) : sent[i].url = call.url}

TokenRequests == {i \in 1..Len(sent) : sent[i].url # call.url}

\* the first response was a 401 whose challenge names a realm
Challenged ==
    /\ Len(received) >= 1
    /\ ~IsTransportError(received[1])
    /\ received[1].status = 401
    /\ "www-authenticate" \in DOMAIN received[1].headers
    /\ received[1].headers["www-authenticate"] \in
           {Hv(ChallengeFull), Hv(ChallengeRealmOnly), Hv(ChallengeQueryRealm)}

\* the token endpoint answered 2xx with a JSON object holding a token
TokenGranted ==
    /\ Len(received) >= 2
    /\ ~IsTransportError(received[2])
    /\ received[2].status = 200
    /\ received[2].json.parses
    /\ received[2].json.object
    /\ \E k \in {"token", "access_token"} :
           k \in DOMAIN received[2].json.fields /\ received[2].json.fields[k] # <<>>

\* C1: one call sends at most two requests to the registry URL and at most
\* one to the token endpoint, and once the second registry request has been
\* answered the call is over and its result is that very response, whatever
\* its status (a second 401 with a fresh challenge included).
C1_AtMostOneReauthentication ==
    InCall =>
        /\ Cardinality(RegistryRequests) <= 2
        /\ Cardinality(TokenRequests) <= 1
        /\ Len(sent) <= 3
        /\ (Len(received) = 3 /\ ~IsTransportError(received[3])) =>
               /\ Done
               /\ fetched = Ok(received[3])
               /\ Len(sent) = 3

C1_Witness ==
    /\ Done
    /\ Len(received) = 3
    /\ received[3] = [status |-> 401,
                      headers |-> Insert(<<>>, "www-authenticate", Hv(ChallengeFull)),
                      body |-> Body("")]
    /\ fetched = Ok(received[3])
    /\ Cardinality(RegistryRequests) = 2
    /\ Cardinality(TokenRequests) = 1

\* C2: get_manifest against an upstream that first answers 401 with a Bearer
\* challenge naming a realm: the token endpoint is asked exactly once; when it
\* grants a token the manifest request is sent again with that token; and when
\* the upstream then answers 200 get_manifest returns the upstream content
\* type and body and the client gets 200.
C2_ManifestAfterChallenge ==
    (InCall /\ call.op = "get_manifest" /\ Challenged) =>
        /\ Cardinality(TokenRequests) = 1
        /\ TokenGranted =>
               /\ Len(sent) = 3
               /\ sent[3].url = sent[1].url
               /\ sent[3].bearer \in {<<"tk1">>, <<"tk2">>}
        /\ (/\ TokenGranted
            /\ Len(received) = 3
            /\ ~IsTransportError(received[3])
            /\ received[3].status = 200
            /\ received[3].body.readable) =>
               /\ Done
               /\ outcome.ok
               /\ outcome.value.body = received[3].body.text
               /\ outcome.value.content_type =
                      (IF "content-type" \in DOMAIN received[3].headers
                       THEN received[3].headers["content-type"].text
                       ELSE "application/json")
               /\ reply.status = 200
               /\ reply.body = received[3].body.text
               /\ Cardinality(TokenRequests) = 1

C2_Witness ==
    /\ Done
    /\ call # None
    /\ call.op = "get_manifest"
    /\ Challenged
    /\ TokenGranted
    /\ Len(received) = 3
    /\ outcome = Ok([content_type |-> ManifestType, body |-> "{\"layers\":[]}"])
    /\ Cardinality(TokenRequests) = 1

\* C3: when the first registry response has a status other than 401 the call
\* is over: fetch_with_auth returns that response unchanged and the only
\* request ever sent is the first one.
C3_NonUnauthorizedReturnedAsIs ==
    (InCall /\ Len(received) >= 1 /\ ~IsTransportError(received[1])
            /\ received[1].status # 401) =>
        /\ Done
        /\ fetched = Ok(received[1])
        /\ Len(sent) = 1
        /\ Len(received) = 1

C3_Witness ==
    /\ Done
    /\ Len(received) = 1
    /\ ~IsTransportError(received[1])
    /\ received[1].status = 403
    /\ "www-authenticate" \in DOMAIN received[1].headers
    /\ fetched = Ok(received[1])
    /\ Len(sent) = 1

\* C4: the static credential ghcr_token travels with a request of a call only
\* when the origin the call resolved to is the GHCR host and the token is not
\* empty.
C4_StaticTokenOnlyToGhcr ==
    InCall =>
        \A i \in 1..Len(sent) :
            (sent[i].at \in {"initial", "token"} /\ sent[i].bearer # <<>>) =>
                call.origin = "https://ghcr.io" /\ ghcr_token # ""

\* C5: after a 401 the failures of the exchange end the call with their own
\* error before anything more is sent: no WWW-Authenticate header gives
\* MissingAuthHeader and no realm gives MissingAuthRealm, with no token
\* request; a token response that is not 2xx gives TokenRequestFailed with its
\* status whatever its body, a body that is not JSON gives TokenParseFailed, a
\* body without a string token or access_token gives TokenNotFound, with no
\* second registry request.
C5_AuthFailuresAreTyped ==
    (InCall /\ Len(received) >= 1 /\ ~IsTransportError(received[1])
            /\ received[1].status = 401) =>
        LET h == received[1].headers IN
        /\ ("www-authenticate" \notin DOMAIN h \/ ~h["www-authenticate"].visible) =>
               Done /\ fetched = Err([kind |-> "MissingAuthHeader"]) /\ Len(sent) = 1
        /\ ("www-authenticate" \in DOMAIN h
                /\ h["www-authenticate"] \in {Hv(ChallengeNoRealm), Hv(ChallengeNoParams)}) =>
               Done /\ fetched = Err([kind |-> "MissingAuthRealm"]) /\ Len(sent) = 1
        /\ (Len(received) >= 2 /\ ~IsTransportError(received[2])) =>
               LET t == received[2] IN
               /\ (t.status < 200 \/ t.status > 299) =>
                      /\ Done
                      /\ fetched = Err([kind |-> "TokenRequestFailed", status |-> t.status])
                      /\ Len(sent) = 2
               /\ (t.status = 200 /\ ~t.json.parses) =>
                      Done /\ fetched = Err([kind |-> "TokenParseFailed"]) /\ Len(sent) = 2
               /\ (t.status = 200 /\ t.json.parses /\ ~TokenGranted) =>
                      Done /\ fetched = Err([kind |-> "TokenNotFound"]) /\ Len(sent) = 2
        /\ (Done /\ ~fetched.ok /\ fetched.err.kind # "Network") =>
               /\ fetched.err.kind \in {"MissingAuthHeader", "MissingAuthRealm",
                                         "TokenRequestFailed", "TokenParseFailed", "TokenNotFound"}
               /\ outcome = fetched
               /\ RegistryRequests = {1}

C5_Witness ==
    /\ Done
    /\ Len(received) = 2
    /\ received[2] = [status |-> 403, json |-> Json(Insert(<<>>, "token", <<"tk1">>))]
    /\ fetched = Err([kind |-> "TokenRequestFailed", status |-> 403])
    /\ Len(sent) = 2

\* C10: a POST to the upload initiation route, as clients write it with its
\* trailing slash or without, is classified as upload initiation, fails with
\* BlobUploadNotSupported and is answered 405.
C10_PostUploadInitIs405 ==
    (Done /\ req.method = "POST"
          /\ (EndsWith(req.rest, "/blobs/uploads/") \/ EndsWith(req.rest, "/blobs/uploads"))) =>
        /\ endpoint.kind = "BlobUploadInit"
        /\ outcome = Err([kind |-> "BlobUploadNotSupported"])
        /\ reply.status = 405

(***************************************************************************)
(* Router properties                                                       *)
(***************************************************************************)
Keywords == {"manifests", "blobs"}

Classified == pc = "done" /\ endpoint # None

\* indexes of the segments of parts that are one of the keywords kws
KeywordAt(parts, kws) == {j \in 1..Len(parts) : parts[j] \in kws}

Least(S) == CHOOSE j \in S : \A k \in S : j <= k

KindOf(kw) ==
    IF kw = "manifests" THEN {"Manifest"}
    ELSE {"Blob", "BlobUploadInit", "BlobUploadComplete"}

\* C6: whenever a manifests or blobs segment of the path is followed by at
\* least one segment, the path is classified (not Unknown) and the endpoint's
\* name is, character for character, the part of the path in front of a
\* keyword segment of the endpoint's kind: the path reads name/keyword/...
\* (or keyword/... with an empty name), whatever the number of slashes in name.
C6_NameIsPrefixBeforeKeyword ==
    Classified =>
        LET parts == Split(req.rest, "/") IN
        (\E j \in 1..(Len(parts) - 1) : parts[j] \in Keywords) =>
            /\ endpoint.kind # "Unknown"
            /\ \E kw \in Keywords :
                /\ endpoint.kind \in KindOf(kw)
                /\ \/ StartsWith(req.rest, endpoint.name \o "/" \o kw \o "/")
                   \/ endpoint.name = "" /\ StartsWith(req.rest, kw \o "/")

C6_Witness ==
    /\ Classified
    /\ req.rest = "a/b/a/manifests/b"
    /\ endpoint = [kind |-> "Manifest", name |-> "a/b/a", reference |-> "b"]

\* C7 as stated: the split point is the first segment equal to manifests or
\* blobs, whichever comes first; the name is what precedes it and the kind of
\* operation is the one of that keyword.
C7_SplitAtFirstKeyword ==
    Classified =>
        LET parts == Split(req.rest, "/")
            ks == KeywordAt(parts, Keywords)
        IN  (ks # {} /\ ks # {Len(parts)}) =>
                /\ endpoint.kind \in KindOf(parts[Least(ks)])
                /\ endpoint.name = Join(SubSeq(parts, 1, Least(ks) - 1), "/")

\* C7 amended: the split point is the first manifests segment when it has a
\* follower, otherwise the first blobs segment; the name is what precedes the
\* split point and the kind is the one of that keyword.
SplitPoint(parts) ==
    LET ms == KeywordAt(parts, {"manifests"})
        bs == KeywordAt(parts, {"blobs"})
    IN  IF ms # {} /\ Least(ms) < Len(parts) THEN Least(ms)
        ELSE IF bs # {} THEN Least(bs)
        ELSE 0

C7_SplitManifestsFirst ==
    Classified =>
        LET parts == Split(req.rest, "/")
            sp == SplitPoint(parts)
        IN  IF sp = 0 \/ sp = Len(parts)
            THEN endpoint = Unknown
            ELSE /\ endpoint.kind \in KindOf(parts[sp])
                 /\ endpoint.name = Join(SubSeq(parts, 1, sp - 1), "/")

C7_Witness ==
    /\ Classified
    /\ req.rest = "a/blobs/b/manifests/a"
    /\ endpoint = [kind |-> "Manifest", name |-> "a/blobs/b", reference |-> "a"]

\* C8: parse_v2_path always returns a value, and the value is Unknown exactly
\* when the path has no keyword segment or its first keyword segment is the
\* last segment; a path ending in blobs/uploads is the upload initiation.
C8_UnknownExactly ==
    Classified =>
        LET parts == Split(req.rest, "/")
            n == Len(parts)
            ks == KeywordAt(parts, Keywords)
        IN  /\ endpoint.kind \in
                   {"Manifest", "Blob", "BlobUploadInit", "BlobUploadComplete", "Unknown"}
            /\ (endpoint = Unknown) <=> (ks = {} \/ Least(ks) = n)
            /\ (ks # {} /\ Least(ks) = n - 1 /\ parts[n - 1] = "blobs" /\ parts[n] = "uploads")
                   => endpoint = [kind |-> "BlobUploadInit",
                                  name |-> Join(SubSeq(parts, 1, n - 2), "/")]

C8_Witness ==
    /\ Classified
    /\ req.rest = "a/b/manifests"
    /\ endpoint = Unknown

\* C9: when no manifests segment has a follower and the first blobs segment
\* is at index i: uploads at i+1 with a segment at i+2 gives BlobUploadComplete
\* with that segment as upload id; uploads at i+1 as the last segment gives
\* BlobUploadInit; any other segment at i+1 gives Blob with it as digest.
C9_BlobsCases ==
    Classified =>
        LET parts == Split(req.rest, "/")
            n == Len(parts)
            ms == KeywordAt(parts, {"manifests"}) \ {n}
            bs == KeywordAt(parts, {"blobs"})
            i == Least(bs)
            name == Join(SubSeq(parts, 1, i - 1), "/")
        IN  (ms = {} /\ bs # {}) =>
                /\ (i + 2 <= n /\ parts[i + 1] = "uploads") =>
                       endpoint = [kind |-> "BlobUploadComplete", name |-> name,
                                   uuid |-> parts[i + 2]]
                /\ (i + 1 = n /\ parts[i + 1] = "uploads") =>
                       endpoint = [kind |-> "BlobUploadInit", name |-> name]
                /\ (i + 1 <= n /\ parts[i + 1] # "uploads") =>
                       endpoint = [kind |-> "Blob", name |-> name, digest |-> parts[i + 1]]

C9_Witness ==
    /\ Classified
    /\ req.rest = "a/b/blobs/uploads/a"
    /\ endpoint = [kind |-> "BlobUploadComplete", name |-> "a/b", uuid |-> "a"]

(***************************************************************************)
(* Properties of the token extraction and of the operations' outcome       *)
(***************************************************************************)
\* the token endpoint answered 2xx with a body that parses as JSON
TokenBodyRead ==
    /\ Len(received) >= 2
    /\ ~IsTransportError(received[2])
    /\ is_success(received[2].status)
    /\ received[2].json.parses

\* field k of the token body holds a string
HoldsString(k) ==
    /\ received[2].json.object
    /\ k \in DOMAIN received[2].json.fields
    /\ received[2].json.fields[k] # <<>>

\* the retry has been sent with this bearer token
RetriedWith(token) ==
    /\ Len(sent) = 3
    /\ sent[3].at = "retry"
    /\ sent[3].url = call.url
    /\ sent[3].bearer = token

\* C18: after a 2xx token response with a JSON body the retry carries the
\* string in `token` when there is one, otherwise the string in
\* `access_token`; with a string in neither the call ends with TokenNotFound
\* and no retry is sent.
C18_TokenOrAccessToken ==
    TokenBodyRead =>
        IF HoldsString("token") THEN RetriedWith(received[2].json.fields["token"])
        ELSE IF HoldsString("access_token")
        THEN RetriedWith(received[2].json.fields["access_token"])
        ELSE /\ Len(sent) = 2
             /\ Done
             /\ fetched = Err([kind |-> "TokenNotFound"])

C18_Witness ==
    /\ TokenBodyRead
    /\ received[2].json.fields = Insert(Insert(<<>>, "token", <<>>), "access_token", <<"tk2">>)
    /\ RetriedWith(<<"tk2">>)
    /\ pc = "retry"

\* fetch_with_auth handed a response to one of the four operations
FinalResponse == Done /\ InCall /\ fetched # None /\ fetched.ok

\* that response is the first one unless the first was a 401
FinalIsFirstOrRetry ==
    fetched.value = (IF received[1].status # 401 THEN received[1] ELSE received[3])

NotFoundKind == IF call.op \in {"get_manifest", "head_manifest"} THEN "ManifestNotFound"
                ELSE "BlobNotFound"

\* C20 as stated: the final upstream response decides the outcome: any 2xx
\* is a success, any other status s is ManifestNotFound{s} for a manifest
\* operation and BlobNotFound{s} for a blob operation.
C20_FinalStatusDecides ==
    FinalResponse =>
        /\ FinalIsFirstOrRetry
        /\ IF is_success(fetched.value.status) THEN outcome.ok
           ELSE outcome = Err([kind |-> NotFoundKind, status |-> fetched.value.status])

\* C20: the final upstream response decides the outcome: any status s
\* outside 2xx is ManifestNotFound{s} for a manifest operation and
\* BlobNotFound{s} for a blob operation; a 2xx is a success for the HEAD
\* operations, and for the GET operations when the body can be read, a body
\* that cannot be read being ResponseReadError.
C20_FinalStatusAndBodyDecide ==
    FinalResponse =>
        /\ FinalIsFirstOrRetry
        /\ IF ~is_success(fetched.value.status)
           THEN outcome = Err([kind |-> NotFoundKind, status |-> fetched.value.status])
           ELSE IF call.op \in {"get_manifest", "get_blob"} /\ ~fetched.value.body.readable
           THEN outcome = Err([kind |-> "ResponseReadError"])
           ELSE outcome.ok

C20_Witness ==
    /\ FinalResponse
    /\ call.op = "head_blob"
    /\ Len(received) = 3
    /\ received[1].status = 401
    /\ received[3].status = 500
    /\ outcome = Err([kind |-> "BlobNotFound", status |-> 500])

(***************************************************************************)
(* Properties of the name resolution                                       *)
(***************************************************************************)
Resolved == pc = "done" /\ call # None

\* the first path segment of the name looks like a host
HostLike(segs) == \E i \in 1..Len(segs[1]) : Ch(segs[1], i) \in {".", ":"}

\* C11 as stated: for every logical name, a first path segment containing '.'
\* or ':' is the origin ("https://" + segment) and the remainder of the name
\* is the repository path; any other name goes to the default registry.
C11_HostSegmentIsOrigin ==
    Resolved =>
        LET segs == Split(call.name, "/") IN
        IF HostLike(segs)
        THEN /\ call.origin = "https://" \o segs[1]
             /\ call.image = Join(Tail(segs), "/")
        ELSE call.origin = registry_url

\* C11: a name of at least two path segments whose first segment contains
\* '.' or ':' resolves to the origin "https://" + that segment and to the
\* remainder as repository path; every other name (a single segment, or a
\* first segment with neither character) resolves to the default registry.
C11_HostQualifiedNameIsOrigin ==
    Resolved =>
        LET segs == Split(call.name, "/") IN
        IF Len(segs) >= 2 /\ HostLike(segs)
        THEN /\ call.origin = "https://" \o segs[1]
             /\ call.image = Join(Tail(segs), "/")
        ELSE call.origin = registry_url

C11_Witness ==
    /\ Resolved
    /\ call.name = "h:5/a/library"
    /\ call.origin = "https://h:5"
    /\ call.image = "a/library"
    /\ registry_url = "https://docker.io"

\* C12: a name resolved to the default registry gets the prefix library/
\* exactly when it has no '/', a host-qualified name's remainder is never
\* prefixed, and normalising a normalised path changes nothing.
C12_LibraryPrefixIffSingleSegment ==
    Resolved =>
        LET segs == Split(call.name, "/") IN
        /\ IF Len(segs) >= 2 /\ HostLike(segs)
           THEN call.image = Join(Tail(segs), "/")
           ELSE /\ call.image = (IF Len(segs) = 1 THEN "library/" \o call.name ELSE call.name)
                /\ normalize_image_name(call.image) = call.image
        /\ normalize_image_name(normalize_image_name(call.name)) = normalize_image_name(call.name)

C12_Witness ==
    /\ Resolved
    /\ call.name = "library"
    /\ call.origin = registry_url
    /\ call.image = "library/library"
    /\ call.url = "https://docker.io/v2/library/library/manifests/latest"

(***************************************************************************)
(* Properties of the range engine                                          *)
(***************************************************************************)
\* parse_range_header has been called on the request's header
Parsed == pc \in {"range", "done"} /\ outcome # None

\* it returned Some(range)
Produced == Parsed /\ ~outcome.panicked /\ outcome.value # <<>>

\* the header is `bytes=` followed by the two texts around one '-'
Shape(a, b) == req.header = "bytes=" \o a \o "-" \o b

\* C13 as stated: every range produced by parse_range_header, for every
\* header and every totalSize >= 0, satisfies 0 <= start < end <= totalSize.
C13_ProducedRangeWithinFile ==
    Produced =>
        /\ 0 <= outcome.value[1].start
        /\ outcome.value[1].start < outcome.value[1].end
        /\ outcome.value[1].end <= req.file_size

\* the empty range produced for an empty file reaches create_range_headers
C13_Witness ==
    /\ pc = "done"
    /\ req.file_size = 0
    /\ req.header = "bytes=-0"
    /\ outcome = Returned(Range(0, 0))
    /\ reply # None

\* the three shapes of C14 for explicit ends drawn from ends
ShapesHold(ends) ==
    Parsed =>
        /\ \A a \in Numbers, b \in ends :
               (Shape(to_string(a), to_string(b)) /\ a < req.file_size /\ a <= b)
                   => outcome = Returned(Range(a, Min(b + 1, req.file_size)))
        /\ \A a \in Numbers :
               (Shape(to_string(a), "") /\ a < req.file_size)
                   => outcome = Returned(Range(a, req.file_size))
        /\ \A n \in Numbers :
               Shape("", to_string(n))
                   => outcome = IF 0 < n /\ n < req.file_size
                                THEN Returned(Range(req.file_size - n, req.file_size))
                                ELSE Returned(Range(0, req.file_size))

\* C14 as stated: `a-b` gives [a, min(b+1, totalSize)) when a < totalSize and
\* a <= b, `a-` gives [a, totalSize) when a < totalSize, `-n` gives the last
\* n bytes when 0 < n < totalSize and the full file when n = 0 or
\* n >= totalSize.
C14_ThreeShapes == ShapesHold(Numbers)

\* the same for every explicit end below the largest 64-bit value
C14_ThreeShapesBelowMaxEnd == ShapesHold(Numbers \ {u64_MAX})

C14_Witness ==
    /\ Parsed
    /\ req.header = "bytes=0-20000"
    /\ req.file_size = 10000
    /\ outcome = Returned(Range(0, 10000))

\* C15 as stated: parse_range_header never panics, whatever the header and
\* the totalSize, explicit ends up to the largest 64-bit value included; a
\* wrong unit, non-numeric bounds, more than one '-', start >= totalSize and
\* start > end yield none.
C15_NeverPanics ==
    Parsed =>
        /\ ~outcome.panicked
        /\ req.header \in {"items=0-10", "bytes=abc-def", "bytes=0-1-2", "bytes=--1"}
               => outcome = Returned(<<>>)
        /\ \A a \in Numbers :
               (Shape(to_string(a), "") /\ a >= req.file_size) => outcome = Returned(<<>>)
        /\ \A a, b \in Numbers :
               (Shape(to_string(a), to_string(b)) /\ (a > b \/ a >= req.file_size))
                   => outcome = Returned(<<>>)

\* the panic: an explicit end of u64::MAX in a build with overflow checks
C15_Witness ==
    /\ Parsed
    /\ overflow_checks
    /\ req.header = "bytes=0-" \o to_string(u64_MAX)
    /\ req.file_size = 10000
    /\ outcome = Panicked

\* create_range_headers has been called on a range with start < end
Built == pc = "done" /\ reply # None /\ outcome.value[1].start < outcome.value[1].end

\* the partial-content answer the claim describes for the request's range
PartialContent ==
    LET range == outcome.value[1] IN
    Returned(Ok([status |-> 206,
                 headers |-> [h \in {"content-type", "content-length", "content-range",
                                      "accept-ranges"} |->
                     CASE h = "content-type" -> req.content_type
                       [] h = "content-length" -> to_string(range.end - range.start)
                       [] h = "content-range" ->
                              "bytes " \o to_string(range.start) \o "-"
                              \o to_string(range.end - 1) \o "/" \o to_string(req.file_size)
                       [] h = "accept-ranges" -> "bytes"]]))

ChallengeSeen ==
    /\ Len(received) >= 1
    /\ ~IsTransportError(received[1])
    /\ received[1].status = 401
    /\ HeaderStr(received[1], "www-authenticate") # <<>>

ChallengeText == received[1].headers["www-authenticate"].text

\* the token request has been sent
TokenRequested == Len(sent) >= 2 /\ sent[2].at = "token"

\* the parameters appended to the realm: service, then scope, where present
Appended(params) ==
    (IF "service" \in DOMAIN params THEN <<"service=" \o params["service"]>> ELSE <<>>)
    \o (IF "scope" \in DOMAIN params THEN <<"scope=" \o params["scope"]>> ELSE <<>>)

\* C17 as stated: the token URL is the realm followed by service= and scope=
\* for the fields present, in that order, the first appended parameter
\* introduced by '?' and every further one by '&'.
C17_TokenUrlQuestionMarkFirst ==
    (ChallengeSeen /\ TokenRequested) =>
        LET params == parse_www_authenticate(ChallengeText) IN
        sent[2].url = params["realm"]
                      \o (IF Appended(params) = <<>> THEN ""
                          ELSE "?" \o Join(Appended(params), "&"))

\* C17: the token URL is the parsed challenge's realm followed by service=
\* and scope= for the fields present, in that order; the first appended
\* parameter is introduced by '?' when the realm contains no '?' and by '&'
\* when it does, every further one by '&'; a challenge with a realm always
\* leads to the token request and one without never does.
C17_TokenUrlFromChallenge ==
    ChallengeSeen =>
        LET params == parse_www_authenticate(ChallengeText) IN
        IF "realm" \in DOMAIN params
        THEN /\ TokenRequested
             /\ sent[2].url = params["realm"]
                    \o (IF Appended(params) = <<>> THEN ""
                        ELSE (IF \E i \in 1..Len(params["realm"]) : Ch(params["realm"], i) = "?"
                              THEN "&" ELSE "?")
                             \o Join(Appended(params), "&"))
        ELSE ~TokenRequested

C17_Witness ==
    /\ ChallengeSeen
    /\ ChallengeText = "Bearer scope=\"repository:a:pull\", realm=\"https://auth.io/token\", "
                       \o "service=\"registry.io\""
    /\ TokenRequested
    /\ sent[2].url = "https://auth.io/token?service=registry.io&scope=repository:a:pull"

\* the map a parameter list states
MapOf(p) == [k \in {p[i].key : i \in 1..Len(p)} |->
                p[CHOOSE i \in 1..Len(p) : p[i].key = k].value]

\* the parse is exact for the challenges whose values are all in vals
ExactMap(vals) ==
    ChallengeSeen =>
        \A c \in ChallengeTable :
            (c.text = ChallengeText /\ \A i \in 1..Len(c.params) : c.params[i].value \in vals)
                => LET parsed == parse_www_authenticate(ChallengeText) IN
                   /\ DOMAIN parsed = DOMAIN MapOf(c.params)
                   /\ \A k \in DOMAIN parsed : parsed[k] = MapOf(c.params)[k]

\* C19 as stated: a header <scheme> k1="v1",k2="v2",... with distinct keys and
\* values free of double quotes is parsed to exactly {k1 -> v1, k2 -> v2, ...};
\* a header with no parameters gives the empty map.
C19_ChallengeParsedExactly == ExactMap(ChallengeValues)

\* the same for values that contain no comma
C19_ChallengeParsedExactlyWithoutComma == ExactMap(ChallengeValues \ {"repository:a:pull,push"})

\* the scope of a pull,push challenge reaches the token URL cut at the comma
C19_Witness ==
    /\ ChallengeSeen
    /\ ChallengeText = "Bearer realm=\"https://auth.io/token\",scope=\"repository:a:pull,push\""
    /\ TokenRequested
    /\ sent[2].url = "https://auth.io/token?scope=\"repository:a:pull"

(***************************************************************************)
(* Properties of the edge handlers                                         *)
(***************************************************************************)
TokenFailureKinds == {"TokenRequestFailed", "TokenParseFailed", "TokenNotFound"}

\* the upstream still answers 401 to the authenticated retry, or the token
\* exchange failed
AuthUltimatelyFails ==
    \/ fetched.ok /\ Len(received) = 3 /\ fetched.value.status = 401
    \/ ~fetched.ok /\ fetched.err.kind \in TokenFailureKinds

ManifestRequestDone ==
    Done /\ InCall /\ fetched # None /\ call.op \in {"get_manifest", "head_manifest"}

\* C21 as stated: for GET|HEAD of a manifest the client receives 401 when
\* upstream authentication ultimately fails (401 after the one retry, or a
\* failed token exchange), 404 when the manifest is not found upstream, and
\* 200 with the upstream content type on success.
C21_ManifestStatuses ==
    ManifestRequestDone =>
        /\ AuthUltimatelyFails => reply.status = 401
        /\ (fetched.ok /\ fetched.value.status = 404) => reply.status = 404
        /\ outcome.ok =>
               /\ reply.status = 200
               /\ reply.headers["content-type"] = content_type_of(fetched.value)

\* a 401 after the retry reaches the client as 404
C21_Witness ==
    /\ ManifestRequestDone
    /\ Len(received) = 3
    /\ ~IsTransportError(received[3])
    /\ received[3].status = 401
    /\ outcome = Err([kind |-> "ManifestNotFound", status |-> 401])
    /\ reply.status = 404

AuthKinds ==
    {"AuthenticationFailed", "MissingAuthHeader", "MissingAuthRealm"} \cup TokenFailureKinds

\* C22 as stated: every handler maps the engine's error kinds alike:
\* ManifestNotFound and BlobNotFound to 404, BlobUploadNotSupported to 405,
\* the auth kinds to 401 or 502, network and internal errors to 502 or 500.
C22_ErrorKindsMappedAlike ==
    (Done /\ outcome # None /\ ~outcome.ok) =>
        LET kind == outcome.err.kind IN
        /\ kind \in {"ManifestNotFound", "BlobNotFound"} => reply.status = 404
        /\ kind = "BlobUploadNotSupported" => reply.status = 405
        /\ kind \in AuthKinds => reply.status \in {401, 502}
        /\ kind \in {"Network", "InternalError"} => reply.status \in {502, 500}

\* the blob GET handler answers 502 for BlobNotFound
C22_Witness ==
    /\ Done
    /\ InCall
    /\ call.op = "get_blob"
    /\ outcome = Err([kind |-> "BlobNotFound", status |-> 404])
    /\ reply.status = 502

\* C23 as stated: GET of a blob relays the upstream response: the client
\* status is the upstream status, every upstream header but connection,
\* transfer-encoding and upgrade is forwarded with its value, those three
\* never are, and the body is the upstream body.
C23_BlobRelayedVerbatim ==
    (Done /\ InCall /\ call.op = "get_blob" /\ fetched # None /\ fetched.ok) =>
        LET upstream_resp == fetched.value IN
        /\ reply.status = upstream_resp.status
        /\ DOMAIN reply.headers
               = (DOMAIN upstream_resp.headers) \ {"connection", "transfer-encoding", "upgrade"}
        /\ \A h \in DOMAIN reply.headers : reply.headers[h] = upstream_resp.headers[h].text
        /\ reply.body = upstream_resp.body.text

\* an upstream 500 for a blob reaches the client as 502
C23_Witness ==
    /\ Done
    /\ InCall
    /\ call.op = "get_blob"
    /\ fetched.ok
    /\ fetched.value.status = 500
    /\ reply.status = 502

\* C27: a PUT is answered 201 exactly when the path classifies as
\* BlobUploadComplete and 404 otherwise, and the step that answers it sends
\* nothing upstream, calls no engine operation and changes no configuration.
C27_PutIsNoOp ==
    [][(pc = "idle" /\ req'.method = "PUT") =>
          /\ pc' = "done"
          /\ endpoint' = parse_v2_path(req'.rest)
          /\ reply'.status = (IF endpoint'.kind = "BlobUploadComplete" THEN 201 ELSE 404)
          /\ UNCHANGED <<registry_url, ghcr_token, call, sent, received, fetched, outcome>>]_vars

C27_Witness ==
    /\ Done
    /\ req.method = "PUT"
    /\ req.rest = "a/blobs/uploads/u1"
    /\ endpoint = [kind |-> "BlobUploadComplete", name |-> "a", uuid |-> "u1"]
    /\ reply = Response(201, <<>>, "Upload complete")
    /\ sent = <<>>

\* C28: the token request is in the log only after a first registry response
\* that is a 401 whose challenge has a realm; the second registry request is
\* in the log only after a 2xx token response that yields a token, and it
\* carries that token as bearer with the method, URL and extra headers of the
\* first request; nothing is sent after it.
C28_AuthExchangeOrdered ==
    InCall =>
        /\ Len(sent) <= 3
        /\ Len(sent) >= 1 => sent[1].at = "initial"
        /\ Len(sent) >= 2 =>
               /\ sent[2].at = "token"
               /\ Len(received) >= 1
               /\ ~IsTransportError(received[1])
               /\ received[1].status = 401
               /\ HeaderStr(received[1], "www-authenticate") # <<>>
               /\ "realm" \in DOMAIN parse_www_authenticate(
                                      HeaderStr(received[1], "www-authenticate")[1])
        /\ Len(sent) = 3 =>
               /\ sent[3].at = "retry"
               /\ Len(received) >= 2
               /\ ~IsTransportError(received[2])
               /\ received[2].status >= 200 /\ received[2].status <= 299
               /\ TokenGranted
               /\ \E k \in {"token", "access_token"} :
                      /\ k \in DOMAIN received[2].json.fields
                      /\ sent[3].bearer = received[2].json.fields[k]
               /\ sent[3].bearer # <<>>
               /\ sent[3].method = sent[1].method
               /\ sent[3].url = sent[1].url
               /\ sent[3].headers = sent[1].headers

C28_Witness ==
    /\ pc = "retry"
    /\ Len(sent) = 3
    /\ sent[1].headers = <<AcceptV2, AcceptList>>
    /\ sent[3].headers = <<AcceptV2, AcceptList>>
    /\ sent[1].bearer = <<"ghp_static">>
    /\ sent[3].bearer = <<"tk2">>

\* create_range_headers has been called on the parsed range
HeadersBuilt == pc = "done" /\ reply # None /\ Produced

\* C30 as stated: for every range parse_range_header returns, file size 0
\* included, create_range_headers computes end - 1 and end - start without
\* underflow and with Content-Length >= 1: no 206 is built for an empty or
\* wrapped range.
C30_NoUnderflowInRangeHeaders ==
    HeadersBuilt =>
        /\ ~reply.panicked
        /\ outcome.value[1].end >= 1
        /\ outcome.value[1].end > outcome.value[1].start
        /\ reply.value.ok => reply.value.value.headers["content-length"] # "0"

\* the 206 built for the empty range of an empty file, with a wrapped end
C30_Witness ==
    /\ HeadersBuilt
    /\ ~overflow_checks
    /\ req.file_size = 0
    /\ outcome = Returned(Range(0, 0))
    /\ reply.value.value.status = 206
    /\ reply.value.value.headers["content-length"] = "0"
    /\ reply.value.value.headers["content-range"] = "bytes 0-" \o to_string(u64_MAX) \o "/0"

(***************************************************************************)
(* Properties of the health check                                          *)
(***************************************************************************)
HealthChecked == pc = "done" /\ call # None /\ call.op = "check_registry_health"

\* C24: check_registry_health asks GET {registry_url}/v2/ and always returns
\* a boolean: true iff the request completes with a 2xx or with 401, false
\* for every other status, for a transport error and for the timeout;
\* healthz answers 200 "healthy" exactly when it is true and 503 "degraded"
\* otherwise.
C24_HealthyIffSuccessOr401 ==
    HealthChecked =>
        /\ sent = <<Outbound("health", "GET", registry_url \o "/v2/", <<>>, <<>>)>>
        /\ outcome \in BOOLEAN
        /\ outcome <=> /\ "status" \in DOMAIN received[1]
                       /\ \/ received[1].status \in 200..299
                          \/ received[1].status = 401
        /\ outcome => reply.status = 200 /\ reply.body.status = "healthy"
        /\ ~outcome => reply.status = 503 /\ reply.body.status = "degraded"

\* a registry that asks for authentication counts as healthy
C24_Witness ==
    /\ HealthChecked
    /\ received[1] \in HealthResponses
    /\ received[1].status = 401
    /\ outcome = TRUE
    /\ reply.status = 200
    /\ reply.body.status = "healthy"

(***************************************************************************)
(* Termination of fetch_with_auth                                          *)
(***************************************************************************)
Awaiting == pc \in {"initial", "token", "retry"}

\* the call has returned a response or a typed error to its operation
CallReturned ==
    /\ pc = "done"
    /\ fetched # None
    /\ \/ fetched.ok /\ fetched.value \in RegistryResponses
       \/ ~fetched.ok /\ fetched.err.kind \in {"Network", "MissingAuthHeader", "MissingAuthRealm",
                                               "TokenRequestFailed", "TokenParseFailed",
                                               "TokenNotFound"}

\* C29: when every outbound exchange eventually completes, every call of
\* fetch_with_auth eventually returns a response or a typed error, and it
\* never makes more than three exchanges, whatever the upstream answers.
C29_CallReturnsWithinThreeExchanges ==
    /\ [](Len(sent) <= 3 /\ Len(received) <= 3)
    /\ Awaiting ~> CallReturned

\* the registry rejects the token as well: the call returns after the third exchange
C29_Witness ==
    /\ CallReturned
    /\ Len(sent) = 3
    /\ Len(received) = 3
    /\ fetched.ok
    /\ fetched.value.status = 401
    /\ HeaderStr(fetched.value, "www-authenticate") = <<ChallengeFull>>

(***************************************************************************)
(* Properties of concurrent and repeated requests                          *)
(***************************************************************************)
Tasks == {Current} \cup {others[i] : i \in DOMAIN others}

\* the results known so far: of the answered requests and of the tasks that
\* hold a reply
Results ==
    completed \cup {[req |-> c.req, outcome |-> c.outcome, reply |-> c.reply] :
                       c \in {t \in Tasks : t.pc = "done"}}

IsHeadBlob(request) == request.method = "HEAD" /\ parse_v2_path(request.rest).kind = "Blob"

\* C25: against an upstream whose answers do not change, all head_blob calls
\* with the same name and digest return the same result (the same content
\* length, or the same error), whether they run one after the other or
\* interleaved with each other and with other operations.
C25_HeadBlobIdempotent ==
    \A x, y \in Results :
        (IsHeadBlob(x.req) /\ x.req = y.req) => x.outcome = y.outcome

\* a head_blob answered after an earlier head_blob and a get_manifest, while
\* another task is in the middle of its own call
C25_Witness ==
    /\ pc = "done"
    /\ IsHeadBlob(req)
    /\ outcome = Ok([content_length |-> 7])
    /\ [req |-> req, outcome |-> outcome, reply |-> reply] \in completed
    /\ \E x \in completed : x.req.method = "GET" /\ x.outcome.ok
    /\ \E i \in DOMAIN others : others[i].pc = "retry"

\* what fetch_with_auth returns for call c when it runs alone against behaviour b
fetch_alone(c, b) ==
    IF IsTransportError(b.first) THEN Err([kind |-> "Network"])
    ELSE IF ~is_unauthorized(b.first.status) THEN Ok(b.first)
    ELSE IF ~challenge_of(b.first).ok THEN challenge_of(b.first)
    ELSE IF IsTransportError(b.token) THEN Err([kind |-> "Network"])
    ELSE IF ~token_of(b.token).ok THEN token_of(b.token)
    ELSE IF IsTransportError(b.retry) THEN Err([kind |-> "Network"])
    ELSE Ok(b.retry)

\* the result of a request that runs alone against the upstream
result_alone(request) ==
    LET e == parse_v2_path(request.rest)
        c == IF request.method = "HEAD" THEN op_request("head_blob", e.name, e.digest)
             ELSE op_request("get_manifest", e.name, e.reference)
        out == op_result(c.op, fetch_alone(c, upstream[c.url]))
    IN  [req |-> request, outcome |-> out, reply |-> handler_reply(c.op, out)]

\* C26: with several request tasks sharing the DockerProxy, in every
\* interleaving, no step changes registry_url or ghcr_token; the bearer of a
\* task's retry is the token of that task's own token response; and every
\* request's outcome and reply are those of the same request running alone
\* against the same upstream.
C26_RequestsIsolated ==
    /\ [][registry_url' = registry_url /\ ghcr_token' = ghcr_token]_vars
    /\ [](\A t \in Tasks :
             Len(t.sent) = 3 =>
                 /\ Len(t.received) >= 2
                 /\ t.sent[3].bearer = extract_token(t.received[2].json))
    /\ [](\A x \in Results : x = result_alone(x.req))

\* two tasks in their retries, each with the token of its own exchange
C26_Witness ==
    /\ pc = "retry"
    /\ sent[3].bearer = <<"tk1">>
    /\ \E i \in DOMAIN others :
          /\ others[i].pc = "retry"
          /\ others[i].sent[3].bearer = <<"tk2">>

====
